---- MODULE Spec2Model ----
(***************************************************************************)
(* Model of src/main.py: the Aroflo task e-mail filler.  One sequential    *)
(* process: credential check, WebDriver start, load of the job tracker,    *)
(* login, navigation, and the per-task loop over job ids with its skip     *)
(* branches, fill workflow, task save, tracker save and return to list.    *)
(* Every Selenium wait, click or read that the code guards with a          *)
(* try/except (or that can raise into the per-task handler) is an input    *)
(* chosen by the environment.                                              *)
(***************************************************************************)
EXTENDS Integers, Sequences, FiniteSets, TLC

(* ------------------------------ bounds --------------------------------- *)
\* number of job ids above DEFAULT_START_JOB_ID that the list can show
MaxJobs == 2
\* number of consecutive process runs over the same remote state
MaxRuns == 2

(* ------------------------- program constants --------------------------- *)
DEFAULT_START_JOB_ID == 3411

JobIds == DEFAULT_START_JOB_ID .. (DEFAULT_START_JOB_ID + MaxJobs - 1)
\* integers a tracker file may hold: one below the ids, the ids, one above
TrackerInts == (DEFAULT_START_JOB_ID - 1) .. (DEFAULT_START_JOB_ID + MaxJobs)

(* ----------------------- strings as characters ------------------------- *)
Lower == {"a","b","c","d","e","f","g","h","i","j","k","l","m",
          "n","o","p","q","r","s","t","u","v","w","x","y","z"}
Upper == {"A","B","C","D","E","F","G","H","I","J","K","L","M",
          "N","O","P","Q","R","S","T","U","V","W","X","Y","Z"}
Digit == {"0","1","2","3","4","5","6","7","8","9"}
Space == {" "}

\* str.strip(): drop leading and trailing whitespace
RECURSIVE lstrip(_)
lstrip(s) == IF s # <<>> /\ Head(s) \in Space THEN lstrip(Tail(s)) ELSE s

RECURSIVE rstrip(_)
rstrip(s) ==
    IF s # <<>> /\ s[Len(s)] \in Space THEN rstrip(SubSeq(s, 1, Len(s) - 1)) ELSE s

strip(s) == rstrip(lstrip(s))

AllIn(s, lo, hi, class) == \A i \in lo..hi : s[i] \in class

\* r'^[a-zA-Z0-9._%+-]+@[a-zA-Z0-9.-]+\.[a-zA-Z]{2,}$' matched at the start
EmailLocal == Lower \cup Upper \cup Digit \cup {".", "_", "%", "+", "-"}
EmailDomain == Lower \cup Upper \cup Digit \cup {".", "-"}
EmailTld == Lower \cup Upper

MatchesEmailPattern(s) ==
    \E at \in 2..Len(s) :
        /\ s[at] = "@"
        /\ AllIn(s, 1, at - 1, EmailLocal)
        /\ \E dot \in (at + 2)..(Len(s) - 2) :
              /\ s[dot] = "."
              /\ AllIn(s, at + 1, dot - 1, EmailDomain)
              /\ AllIn(s, dot + 1, Len(s), EmailTld)

is_valid_email(text) ==
    IF text = <<>> THEN FALSE ELSE MatchesEmailPattern(strip(text))

\* the values the code refuses even when they look like an e-mail
Placeholders == { <<"o","n">>, <<"o","f","f">>, <<"t","r","u","e">>,
                  <<"f","a","l","s","e">> }

\* r'\b[A-Za-z0-9._%+-]+@[A-Za-z0-9.-]*\.aroflo\.com\b' against one word
ArofloSuffix == <<".","a","r","o","f","l","o",".","c","o","m">>

MatchesArofloPattern(w) ==
    \E at \in 2..(Len(w) - Len(ArofloSuffix)) :
        /\ w[at] = "@"
        /\ AllIn(w, 1, at - 1, EmailLocal)
        /\ AllIn(w, at + 1, Len(w) - Len(ArofloSuffix), EmailDomain)
        /\ SubSeq(w, Len(w) - Len(ArofloSuffix) + 1, Len(w)) = ArofloSuffix

(* --------------------------- sample strings ---------------------------- *)
EmptyText == <<>>
OnText == <<"o","n">>
NotAnEmail == <<"n","o","t","-","a","n">>
ClientEmail == <<" ","b","o","b","@","c",".","c","o">>
GeneratedEmail == <<"j","@","x",".","a","r","o","f","l","o",".","c","o","m">>
default_email == <<"d","e","f","a","u","l","t","@","a","r","o","f","l","o",".","c","o","m">>

(* ---------------------------- job tracker ------------------------------ *)
\* What job_tracker.json can be on disk.  val is the number held by
\* "last_index" when kind is "int" or "numstr" (a string of digits), else 0.
FileKinds == {"missing", "unreadable", "notjson", "notobject", "nokey",
              "null", "badstr", "numstr", "int"}

FileOf(k, v) == [kind |-> k, val |-> v]

\* int(last_index): the number itself, the number a digit string spells,
\* a ValueError for any other string
IntConvertible(f) == f.kind \in {"int", "numstr"}

\* data.get('last_index'): None when the key is absent or holds null
GetIsNone(f) == f.kind \in {"nokey", "null"}

\* open() or json.load() or data.get() raises: caught by the except clause
LoadRaisesInside(f) == f.kind \in {"unreadable", "notjson", "notobject"}

\* the exception the body of the try of lines 57-64 throws on file f
LoadException(f) ==
    IF f.kind = "unreadable" THEN "OSError"
    ELSE IF f.kind = "notjson" THEN "JSONDecodeError"
    ELSE IF f.kind = "notobject" THEN "AttributeError"
    ELSE IF f.kind = "badstr" THEN "ValueError"
    ELSE "none"

\* an except clause that names the file and JSON errors only
LoadHandledFileErrors(e) == e \in {"OSError", "JSONDecodeError"}

\* line 65: except Exception
LoadHandled(e) == TRUE

\* the call leaves load_job_tracker by an exception
load_job_tracker_raises(f) ==
    f.kind # "missing" /\ LoadException(f) # "none" /\ ~LoadHandled(LoadException(f))

\* load_job_tracker with "if not last_index" in place of "is None": a stored 0
\* is taken for a missing value
load_job_tracker_falsy(f) ==
    IF f.kind = "missing" THEN DEFAULT_START_JOB_ID
    ELSE IF LoadRaisesInside(f) THEN DEFAULT_START_JOB_ID
    ELSE IF GetIsNone(f) THEN DEFAULT_START_JOB_ID
    ELSE IF IntConvertible(f)
    THEN (IF f.val = 0 THEN DEFAULT_START_JOB_ID ELSE f.val)
    ELSE DEFAULT_START_JOB_ID

load_job_tracker(f) ==
    IF f.kind = "missing" THEN DEFAULT_START_JOB_ID
    ELSE IF LoadRaisesInside(f) THEN DEFAULT_START_JOB_ID
    ELSE IF GetIsNone(f) THEN DEFAULT_START_JOB_ID
    ELSE IF IntConvertible(f) THEN f.val
    ELSE DEFAULT_START_JOB_ID

\* Outcomes of the write: done; open() failed (file as before); the file was
\* truncated by open(..., 'w') and the dump or the close failed (no JSON left).
WriteOutcomes == {"ok", "open_fail", "write_fail"}

\* the exception the body of the try of lines 74-77 throws
SaveException(io) == IF io = "ok" THEN "none" ELSE "OSError"

\* line 78: except Exception
SaveHandled(e) == TRUE

\* the call leaves save_job_tracker by an exception
save_job_tracker_raises(io) ==
    SaveException(io) # "none" /\ ~SaveHandled(SaveException(io))

\* save_job_tracker storing the id before the one it was given
save_job_tracker_previous(f, index, io) ==
    IF io = "ok" THEN FileOf("int", index - 1)
    ELSE IF io = "open_fail" THEN f
    ELSE FileOf("notjson", 0)

save_job_tracker(f, index, io) ==
    IF io = "ok" THEN FileOf("int", index)
    ELSE IF io = "open_fail" THEN f
    ELSE FileOf("notjson", 0)

(* ------------------------------ remote site ---------------------------- *)
FieldIds == {15, 16}

TaskOf(p, e, d, a, b, g) ==
    [present |-> p, excluded |-> e, delivery |-> d,
     fld |-> [i \in FieldIds |-> IF i = 15 THEN a ELSE b], gen |-> g]

\* the tasks a run can meet: no row; Installer Checkin; a client address
\* already in -15; empty fields; the checkbox value 'on' in -16 of a
\* Delivery Only task whose page already shows a generated address
TaskProfiles ==
    { TaskOf(FALSE, FALSE, FALSE, EmptyText, EmptyText, FALSE),
      TaskOf(TRUE, TRUE, FALSE, EmptyText, EmptyText, FALSE),
      TaskOf(TRUE, FALSE, FALSE, ClientEmail, NotAnEmail, FALSE),
      TaskOf(TRUE, FALSE, FALSE, EmptyText, EmptyText, FALSE),
      TaskOf(TRUE, FALSE, TRUE, EmptyText, OnText, TRUE) }

NoView == [i \in FieldIds |-> EmptyText]

(* ----------------------------- credentials ---------------------------- *)
\* lines 21-22: a variable of the environment is unset (None), empty or set
CredentialValues == {"unset", "empty", "set"}

\* "not USERNAME": None and the empty string are false
Absent(c) == c \in {"unset", "empty"}

\* the test of line 25 with "and" in place of "or"
CredentialsMissingBoth(u, p) == Absent(u) /\ Absent(p)

\* line 25: not USERNAME or not PASSWORD
CredentialsMissing(u, p) == Absent(u) \/ Absent(p)

(* -------------------------------- state -------------------------------- *)
VARIABLES
    pc,                 \* position of the process in main.py
    USERNAME,           \* os.environ.get('AROFLO_USERNAME')
    PASSWORD,           \* os.environ.get('AROFLO_PASSWORD')
    run,                \* which process run this is
    file,               \* job_tracker.json
    tasks,              \* the remote site: job id -> task
    first_row,          \* job id in the first row of the list (the highest, line 271), 0 if none
    driver,             \* "none", "up", "quit"
    quits,              \* driver.quit() calls of this run
    exit_code,          \* -1 while running
    last_index,         \* value load_job_tracker returned
    first_row_job_id,   \* value read at loop start
    job_id,             \* loop variable
    view,               \* field values of the open detail view (the DOM)
    view_open,          \* a detail view is open
    workflow_clicked,
    created_email,      \* <<>> for None
    log,                \* what was done for the current job id, in order
    attempted,          \* job ids whose loop body started in this run
    aborted,            \* job ids whose body ended in the per-task handler
    aborted_prev,       \* the same, for the previous run
    stepped,            \* last id of this run that called save_job_tracker, 0 if none
    written,            \* last id of this run whose tracker write succeeded, 0 if none
    prev_final,         \* tracker file when the previous run ended
    clean,              \* no step of this run has failed so far
    prev_outcome,       \* how the previous run ended: "none", "died", "faulty", "clean"
    probe               \* tracker calls made on their own: last save, last load

vars == <<pc, USERNAME, PASSWORD, run, file, tasks, first_row, driver, quits, exit_code, last_index,
          first_row_job_id, job_id, view, view_open, workflow_clicked,
          created_email, log, attempted, aborted, aborted_prev, stepped,
          written, prev_final, clean, prev_outcome, probe>>

environ == <<USERNAME, PASSWORD>>
remote == <<tasks, first_row>>
locals == <<last_index, first_row_job_id, job_id, view, view_open,
            workflow_clicked, created_email>>
history == <<log, attempted, aborted, aborted_prev, stepped, written,
             prev_final, clean, prev_outcome>>

\* the tracker files a run starts from: none yet, one a failed write left
\* without JSON, one a completed write left
NoProbe == [op |-> "none", n |-> 0, io |-> "ok", ret |-> 0, raised |-> FALSE]

InitFiles ==
    {FileOf("missing", 0), FileOf("notjson", 0)}
      \cup {FileOf("int", n) : n \in TrackerInts}

PresentIds(t) == {j \in JobIds : t[j].present}

Init ==
    /\ pc = "creds"
    /\ USERNAME \in CredentialValues
    /\ PASSWORD \in CredentialValues
    /\ run = 1
    /\ file \in InitFiles
    /\ tasks \in [JobIds -> TaskProfiles]
    /\ first_row = IF PresentIds(tasks) = {} THEN 0
                   ELSE CHOOSE j \in PresentIds(tasks) :
                            \A k \in PresentIds(tasks) : k <= j
    /\ driver = "none"
    /\ quits = 0
    /\ exit_code = -1
    /\ last_index = 0
    /\ first_row_job_id = 0
    /\ job_id = 0
    /\ view = NoView
    /\ view_open = FALSE
    /\ workflow_clicked = FALSE
    /\ created_email = <<>>
    /\ log = <<>>
    /\ attempted = {}
    /\ aborted = {}
    /\ aborted_prev = {}
    /\ stepped = 0
    /\ written = 0
    /\ prev_final = FileOf("missing", 0)
    /\ clean = TRUE
    /\ prev_outcome = "none"
    /\ probe = NoProbe

(* ------------------------------- startup ------------------------------- *)
\* an outer handler that ends the process without a finally clause
AfterOuterRaiseNoFinally == "exited"

\* lines 383-389: the exception is logged and re-raised, the finally clause
\* runs before the process ends
AfterOuterRaise == "quit"

\* lines 21-27: exit(1) when a credential is absent
CheckCredentials ==
    /\ pc = "creds"
    /\ IF CredentialsMissing(USERNAME, PASSWORD)
       THEN pc' = "exited" /\ exit_code' = 1
       ELSE pc' = "driver" /\ UNCHANGED exit_code
    /\ UNCHANGED <<probe, environ, quits, run, file, remote, driver, locals, history>>

\* lines 42-49: the WebDriver starts, or the exception is re-raised
InitDriver ==
    /\ pc = "driver"
    /\ \E ok \in BOOLEAN :
          IF ok
          THEN pc' = "load" /\ driver' = "up" /\ UNCHANGED exit_code
          ELSE pc' = "exited" /\ exit_code' = 1 /\ UNCHANGED driver
    /\ UNCHANGED <<probe, environ, quits, run, file, remote, locals, history>>

\* line 235: an exception leaving load_job_tracker reaches the outer handler
LoadTracker ==
    /\ pc = "load"
    /\ IF load_job_tracker_raises(file)
       THEN pc' = AfterOuterRaise /\ exit_code' = 1 /\ UNCHANGED last_index
       ELSE /\ last_index' = load_job_tracker(file)
            /\ pc' = "login"
            /\ UNCHANGED exit_code
    /\ UNCHANGED <<probe, environ, quits, run, file, remote, driver, first_row_job_id,
                   job_id, view, view_open, workflow_clicked, created_email,
                   history>>

\* lines 237-263: login and navigation; any failure reaches the outer handler
LoginAndNavigate ==
    /\ pc = "login"
    /\ \E ok \in BOOLEAN :
          IF ok
          THEN pc' = "extract" /\ UNCHANGED exit_code
          ELSE pc' = AfterOuterRaise /\ exit_code' = 1
    /\ UNCHANGED <<probe, environ, quits, run, file, remote, driver, locals, history>>

(* --------------------------- page inspection --------------------------- *)
TaskPresent(j) == j \in JobIds /\ tasks[j].present

\* lines 220-231: a failing lookup is caught and answers False
is_installer_checkin_task(task, lookup_raises) ==
    IF lookup_raises THEN FALSE ELSE task.excluded

\* lines 101-132: -15 first, then -16; the first valid, non-placeholder value
FieldValue(dom, i) == strip(dom[i])

FieldHoldsEmail(dom, i) ==
    is_valid_email(FieldValue(dom, i)) /\ FieldValue(dom, i) \notin Placeholders

\* check_email_field_content looking at -16 only
check_email_field_content_16(dom) ==
    IF FieldHoldsEmail(dom, 16) THEN FieldValue(dom, 16) ELSE <<>>

check_email_field_content(dom) ==
    IF FieldHoldsEmail(dom, 15) THEN FieldValue(dom, 15)
    ELSE IF FieldHoldsEmail(dom, 16) THEN FieldValue(dom, 16)
    ELSE <<>>

\* the words of driver.page_source: the field values and, when the site has
\* generated an address for the task, that address
PageWords(task, dom) ==
    <<dom[15], dom[16]>> \o (IF task.gen THEN <<GeneratedEmail>> ELSE <<>>)

\* lines 207-218: the first match, None when there is none or the read raises
search_aroflo_email_in_page(words, read_raises) ==
    IF read_raises THEN <<>>
    ELSE IF \E i \in 1..Len(words) : MatchesArofloPattern(words[i])
    THEN words[CHOOSE i \in 1..Len(words) :
                  /\ MatchesArofloPattern(words[i])
                  /\ \A k \in 1..(i - 1) : ~MatchesArofloPattern(words[k])]
    ELSE <<>>

\* lines 134-161: -15 for a Delivery Only task, else -16
get_email_field(task) == IF task.delivery THEN 15 ELSE 16

(* ---------------------------- fill operation --------------------------- *)
\* What the page does to one paste_email call: whether get_email_field finds
\* a field, what the read-back of line 181 gives after send_keys, what the
\* read-back of line 195 gives after Ctrl-V.  A read-back is a text, or an
\* exception thrown on the way to it.
ReadText(t) == [raises |-> FALSE, text |-> t]
ReadRaises == [raises |-> TRUE, text |-> EmptyText]

PasteEnv(f, d, c) == [found |-> f, direct |-> d, clip |-> c]

\* the pages a run meets: the field takes the text or stays empty
PasteEnvs(email) ==
    { PasteEnv(FALSE, ReadRaises, ReadRaises) }
      \cup { PasteEnv(TRUE, d, ReadRaises) : d \in {ReadText(email), ReadRaises} }
      \cup { PasteEnv(TRUE, ReadText(EmptyText), c) :
                c \in {ReadText(email), ReadText(EmptyText), ReadRaises} }

\* the result of a call that an exception ended at line 203
PasteExcept(handled, copies, left) ==
    [ok |-> FALSE, clipboard |-> copies, value |-> left, raised |-> ~handled]

\* line 203: except Exception
PasteHandled == TRUE

\* paste_email giving up when the direct entry did not take
paste_email_direct_only(email, old, env) ==
    IF ~env.found
    THEN [ok |-> FALSE, clipboard |-> 0, value |-> old, raised |-> FALSE]
    ELSE IF env.direct.raises THEN PasteExcept(PasteHandled, 0, old)
    ELSE [ok |-> strip(env.direct.text) = email, clipboard |-> 0,
          value |-> env.direct.text, raised |-> FALSE]

\* lines 163-205: ok is the returned value, clipboard the number of
\* pyperclip.copy calls, value what the field holds afterwards, raised
\* whether an exception left the function
paste_email(email, old, env) ==
    IF ~env.found
    THEN [ok |-> FALSE, clipboard |-> 0, value |-> old, raised |-> FALSE]
    ELSE IF env.direct.raises THEN PasteExcept(PasteHandled, 0, old)
    ELSE IF strip(env.direct.text) = email
    THEN [ok |-> TRUE, clipboard |-> 0, value |-> env.direct.text, raised |-> FALSE]
    ELSE IF env.clip.raises THEN PasteExcept(PasteHandled, 1, env.direct.text)
    ELSE [ok |-> strip(env.clip.text) = email, clipboard |-> 1,
          value |-> env.clip.text, raised |-> FALSE]

FillEvents(email, r) ==
    (IF r.clipboard > 0 THEN <<"clipboard">> ELSE <<>>)
      \o << IF email = default_email
            THEN (IF r.ok THEN "fill_default_ok" ELSE "fill_default_fail")
            ELSE (IF r.ok THEN "fill_created_ok" ELSE "fill_created_fail") >>

(* ------------------------------- the log ------------------------------- *)
\* log lines that report a failed step
FailureEvents == {"open_fail", "abort", "type_error", "workflow_fail",
                  "scan_error", "create_fail", "clipboard", "fill_created_fail",
                  "fill_default_fail", "save_fail", "save_error", "close_fail"}

\* log lines of the steps that act on the remote task
TriggerEvents == {"workflow_ok", "workflow_fail"}
CreateEvents == {"create_ok", "create_fail"}
FillEventsCreated == {"fill_created_ok", "fill_created_fail"}
FillEventsDefault == {"fill_default_ok", "fill_default_fail"}
SaveClickEvents == {"save_ok", "save_fail"}
CloseEvents == {"close_ok", "close_fail"}
MutationEvents == TriggerEvents \cup CreateEvents \cup FillEventsCreated
                    \cup FillEventsDefault \cup SaveClickEvents

Logged(events) == \E i \in 1..Len(log) : log[i] \in events

(* ------------------------------ the loop ------------------------------- *)
\* the loop restarting from the default id whatever the tracker held
LoopRangeFromDefault(lo, hi) == DEFAULT_START_JOB_ID .. hi

\* the loop resuming after the watermark instead of at it
LoopRangeAfterWatermark(lo, hi) == (lo + 1) .. hi

\* the loop stopping one id short of the first row's id
LoopRangeExclusive(lo, hi) == lo .. (hi - 1)

\* line 274: range(last_index, first_row_job_id + 1)
LoopRange(lo, hi) == lo .. hi

\* lines 266-275: no cells, or the first row read and the loop entered; a
\* failing read of the first cell reaches the outer handler
ExtractJobIds ==
    /\ pc = "extract"
    /\ \E read_ok \in BOOLEAN :
          IF first_row = 0
          THEN pc' = "finish" /\ UNCHANGED <<first_row_job_id, job_id, exit_code>>
          ELSE IF ~read_ok
          THEN pc' = AfterOuterRaise /\ exit_code' = 1
               /\ UNCHANGED <<first_row_job_id, job_id>>
          ELSE /\ first_row_job_id' = first_row
               /\ UNCHANGED exit_code
               /\ IF LoopRange(last_index, first_row) = {}
                  THEN pc' = "finish" /\ UNCHANGED job_id
                  ELSE /\ pc' = "locate"
                       /\ job_id' = CHOOSE j \in LoopRange(last_index, first_row) :
                                       \A k \in LoopRange(last_index, first_row) : j <= k
    /\ UNCHANGED <<probe, environ, quits, run, file, remote, driver, last_index, view,
                   view_open, workflow_clicked, created_email, history>>

\* a lookup that records the id as processed when it finds no row
AfterLocateSaves(found) == IF found THEN "open" ELSE "skip_save"

\* lines 279-281: with no row the iteration ends at once
AfterLocate(found) == IF found THEN "open" ELSE "next"

\* lines 277-281: the row lookup; with a detail view left open the list may
\* not be on the page
Locate ==
    /\ pc = "locate"
    /\ attempted' = attempted \cup {job_id}
    /\ \E list_shown \in (IF view_open THEN BOOLEAN ELSE {TRUE}) :
          LET found == TaskPresent(job_id) /\ list_shown
          IN /\ pc' = AfterLocate(found)
             /\ log' = IF found THEN <<>> ELSE <<"not_found">>
    /\ UNCHANGED <<probe, environ, quits, run, file, remote, driver, exit_code, locals, aborted,
                   aborted_prev, stepped, written, prev_final, clean, prev_outcome>>

\* the per-task handler of lines 377-379
Raised(events) ==
    /\ pc' = "next"
    /\ log' = log \o events \o <<"abort">>
    /\ aborted' = aborted \cup {job_id}

\* lines 283-285
OpenTask ==
    /\ pc = "open"
    /\ \E ok \in BOOLEAN :
          IF ok
          THEN /\ pc' = "typecheck"
               /\ log' = Append(log, "open")
               /\ view' = tasks[job_id].fld
               /\ view_open' = TRUE
               /\ UNCHANGED aborted
          ELSE Raised(<<"open_fail">>) /\ UNCHANGED <<view, view_open>>
    /\ UNCHANGED <<probe, environ, quits, run, file, remote, driver, exit_code, last_index,
                   first_row_job_id, job_id, workflow_clicked, created_email,
                   attempted, aborted_prev, stepped, written, prev_final, clean, prev_outcome>>

\* line 288
TypeCheck ==
    /\ pc = "typecheck"
    /\ \E lookup_raises \in BOOLEAN :
          IF is_installer_checkin_task(tasks[job_id], lookup_raises)
          THEN pc' = "skip_close" /\ log' = Append(log, "type_skip")
          ELSE /\ pc' = "existcheck"
               /\ log' = IF lookup_raises THEN Append(log, "type_error") ELSE log
    /\ UNCHANGED <<probe, environ, quits, run, file, remote, driver, exit_code, locals, attempted,
                   aborted, aborted_prev, stepped, written, prev_final, clean, prev_outcome>>

\* lines 295-296
ExistingCheck ==
    /\ pc = "existcheck"
    /\ IF check_email_field_content(view) # <<>>
       THEN pc' = "skip_close" /\ log' = Append(log, "exist_skip")
       ELSE pc' = "workflow" /\ UNCHANGED log
    /\ UNCHANGED <<probe, environ, quits, run, file, remote, driver, exit_code, locals, attempted,
                   aborted, aborted_prev, stepped, written, prev_final, clean, prev_outcome>>

\* lines 290 and 298: safe_div_click on the return-to-list link; the click is
\* not inside a try of its own, so a failure reaches the per-task handler
SkipClose ==
    /\ pc = "skip_close"
    /\ \E ok \in BOOLEAN :
          IF ok
          THEN /\ pc' = "skip_save"
               /\ log' = Append(log, "close_ok")
               /\ view_open' = FALSE
               /\ view' = NoView
               /\ UNCHANGED aborted
          ELSE Raised(<<"close_fail">>) /\ UNCHANGED <<view, view_open>>
    /\ UNCHANGED <<probe, environ, quits, run, file, remote, driver, exit_code, last_index,
                   first_row_job_id, job_id, workflow_clicked, created_email,
                   attempted, aborted_prev, stepped, written, prev_final, clean, prev_outcome>>

\* a step that ends where the flow says, or in the per-task handler
Goto(target, events) ==
    IF target = "raise"
    THEN Raised(events)
    ELSE pc' = target /\ log' = log \o events /\ UNCHANGED aborted

\* the call save_job_tracker(job_id) of lines 291, 299 and 369; an exception
\* leaving it reaches the per-task handler
TrackerStep(next_pc) ==
    /\ \E io \in WriteOutcomes :
          /\ file' = save_job_tracker(file, job_id, io)
          /\ written' = IF io = "ok" THEN job_id ELSE written
          /\ Goto(IF save_job_tracker_raises(io) THEN "raise" ELSE next_pc,
                  <<"tracker", IF io = "ok" THEN "saved" ELSE "save_error">>)
    /\ stepped' = job_id

\* lines 291-292 and 299-300
SkipSave ==
    /\ pc = "skip_save"
    /\ TrackerStep("next")
    /\ UNCHANGED <<probe, environ, quits, run, remote, driver, exit_code, locals, attempted,
                   aborted_prev, prev_final, clean, prev_outcome>>

(* --------------------------- fill workflow ----------------------------- *)
\* lines 306-312: the click is tried, a failure is logged, the scan follows
AfterWorkflowClick(ok) == "scan"

\* the Create button tried whether or not the workflow button was clicked
AfterScanCreateAlways(created, clicked) ==
    IF created # <<>> THEN "fill_created" ELSE "create"

\* lines 316 and 322-357: a found address is pasted; else Create is tried when
\* the workflow button was clicked; else the default is pasted
AfterScan(created, clicked) ==
    IF created # <<>> THEN "fill_created"
    ELSE IF clicked THEN "create"
    ELSE "fill_default"

\* the except clause of the Create click without its default paste
AfterCreateNoDefault(ok) == IF ok THEN "rescan" ELSE "tasksave"

\* lines 325-351: after the click the scan is repeated; a failure of the
\* click is caught and the default is pasted
AfterCreate(ok) == IF ok THEN "rescan" ELSE "fill_default"

\* the default pasted whatever the second scan found
AfterRescanAlwaysDefault(created) == "fill_default"

\* lines 335-345
AfterRescan(created) == IF created # <<>> THEN "fill_created" ELSE "fill_default"

\* the watermark written right after the paste, the save click left out
AfterFillSkipsSave(raised) == IF raised THEN "raise" ELSE "tracker"

\* lines 318-367: whatever paste_email returned, the save click follows
AfterFill(raised) == IF raised THEN "raise" ELSE "tasksave"

\* the save click without its try: a failure reaches the per-task handler
AfterTaskSaveUncaught(ok) == IF ok THEN "tracker" ELSE "raise"

\* lines 360-367: the save click is tried, a failure is logged
AfterTaskSave(ok) == "tracker"

\* lines 371-375: the return to the list is tried, a failure is logged
AfterReturn(ok) == "next"

\* what the site may do on a click that reached it: generate an address
SiteAfterClick(generates) ==
    [tasks EXCEPT ![job_id].gen = tasks[job_id].gen \/ generates]

WorkflowClick ==
    /\ pc = "workflow"
    /\ \E ok \in BOOLEAN :
          /\ workflow_clicked' = ok
          /\ Goto(AfterWorkflowClick(ok),
                  IF ok THEN <<"workflow_ok">> ELSE <<"workflow_fail">>)
          /\ IF ok
             THEN \E generates \in BOOLEAN : tasks' = SiteAfterClick(generates)
             ELSE UNCHANGED tasks
    /\ UNCHANGED <<probe, environ, quits, run, file, first_row, driver, exit_code, last_index,
                   first_row_job_id, job_id, view, view_open, created_email,
                   attempted, aborted_prev, stepped, written, prev_final, clean, prev_outcome>>

\* line 315
Scan ==
    /\ pc = "scan"
    /\ \E read_raises \in BOOLEAN :
          LET found == search_aroflo_email_in_page(
                           PageWords(tasks[job_id], view), read_raises)
          IN /\ created_email' = found
             /\ Goto(AfterScan(found, workflow_clicked),
                     (IF read_raises THEN <<"scan_error">> ELSE <<>>)
                       \o (IF found # <<>> THEN <<"scan_hit">> ELSE <<"scan_miss">>))
    /\ UNCHANGED <<probe, environ, quits, run, file, remote, driver, exit_code, last_index,
                   first_row_job_id, job_id, view, view_open, workflow_clicked,
                   attempted, aborted_prev, stepped, written, prev_final, clean, prev_outcome>>

\* lines 326-332
CreateClick ==
    /\ pc = "create"
    /\ \E ok \in BOOLEAN :
          /\ Goto(AfterCreate(ok), IF ok THEN <<"create_ok">> ELSE <<"create_fail">>)
          /\ IF ok
             THEN \E generates \in BOOLEAN : tasks' = SiteAfterClick(generates)
             ELSE UNCHANGED tasks
    /\ UNCHANGED <<probe, environ, quits, run, file, first_row, driver, exit_code, locals, attempted,
                   aborted_prev, stepped, written, prev_final, clean, prev_outcome>>

\* line 335
Rescan ==
    /\ pc = "rescan"
    /\ \E read_raises \in BOOLEAN :
          LET found == search_aroflo_email_in_page(
                           PageWords(tasks[job_id], view), read_raises)
          IN /\ created_email' = found
             /\ Goto(AfterRescan(found),
                     (IF read_raises THEN <<"scan_error">> ELSE <<>>)
                       \o (IF found # <<>> THEN <<"rescan_hit">> ELSE <<"rescan_miss">>))
    /\ UNCHANGED <<probe, environ, quits, run, file, remote, driver, exit_code, last_index,
                   first_row_job_id, job_id, view, view_open, workflow_clicked,
                   attempted, aborted_prev, stepped, written, prev_final, clean, prev_outcome>>

\* one paste_email call and what it leaves in the designated field
Fill(email) ==
    \E env \in PasteEnvs(email) :
        LET target == get_email_field(tasks[job_id])
            r == paste_email(email, view[target], env)
        IN /\ view' = [view EXCEPT ![target] = r.value]
           /\ Goto(AfterFill(r.raised), FillEvents(email, r))

\* lines 318 and 338
FillCreated ==
    /\ pc = "fill_created"
    /\ Fill(created_email)
    /\ UNCHANGED <<probe, environ, quits, run, file, remote, driver, exit_code, last_index,
                   first_row_job_id, job_id, view_open, workflow_clicked,
                   created_email, attempted, aborted_prev, stepped,
                   written, prev_final, clean, prev_outcome>>

\* lines 343-344, 349-350 and 355-356
FillDefault ==
    /\ pc = "fill_default"
    /\ Fill(default_email)
    /\ UNCHANGED <<probe, environ, quits, run, file, remote, driver, exit_code, last_index,
                   first_row_job_id, job_id, view_open, workflow_clicked,
                   created_email, attempted, aborted_prev, stepped,
                   written, prev_final, clean, prev_outcome>>

\* lines 360-367: a click that reaches the site stores the field values
TaskSave ==
    /\ pc = "tasksave"
    /\ \E ok \in BOOLEAN :
          /\ Goto(AfterTaskSave(ok), IF ok THEN <<"save_ok">> ELSE <<"save_fail">>)
          /\ tasks' = IF ok THEN [tasks EXCEPT ![job_id].fld = view] ELSE tasks
    /\ UNCHANGED <<probe, environ, quits, run, file, first_row, driver, exit_code, locals, attempted,
                   aborted_prev, stepped, written, prev_final, clean, prev_outcome>>

\* line 369
SaveTracker ==
    /\ pc = "tracker"
    /\ TrackerStep("return")
    /\ UNCHANGED <<probe, environ, quits, run, remote, driver, exit_code, locals, attempted,
                   aborted_prev, prev_final, clean, prev_outcome>>

\* lines 371-375
ReturnToList ==
    /\ pc = "return"
    /\ \E ok \in BOOLEAN :
          /\ Goto(AfterReturn(ok), IF ok THEN <<"close_ok">> ELSE <<"close_fail">>)
          /\ view_open' = ~ok
          /\ view' = IF ok THEN NoView ELSE view
    /\ UNCHANGED <<probe, environ, quits, run, file, remote, driver, exit_code, last_index,
                   first_row_job_id, job_id, workflow_clicked, created_email,
                   attempted, aborted_prev, stepped, written, prev_final, clean, prev_outcome>>

\* the for statement takes the next id of the range, or the loop ends
Advance ==
    /\ pc = "next"
    /\ IF job_id + 1 \in LoopRange(last_index, first_row_job_id)
       THEN pc' = "locate" /\ job_id' = job_id + 1
       ELSE pc' = "finish" /\ UNCHANGED job_id
    /\ workflow_clicked' = FALSE
    /\ created_email' = <<>>
    /\ log' = <<>>
    /\ clean' = (clean /\ ~\E i \in 1..Len(log) : log[i] \in FailureEvents)
    /\ view' = NoView
    /\ UNCHANGED <<probe, environ, quits, run, file, remote, driver, exit_code, last_index,
                   first_row_job_id, view_open, attempted, aborted,
                   aborted_prev, stepped, written, prev_final, prev_outcome>>

(* ------------------------------- the end ------------------------------- *)
\* line 381
Finish ==
    /\ pc = "finish"
    /\ pc' = "quit"
    /\ exit_code' = 0
    /\ UNCHANGED <<probe, environ, quits, run, file, remote, driver, locals, history>>

\* lines 387-389
Quit ==
    /\ pc = "quit"
    /\ driver' = "quit"
    /\ quits' = quits + 1
    /\ pc' = "exited"
    /\ UNCHANGED <<probe, environ, run, file, remote, exit_code, locals, history>>

\* the next run of the script: a fresh process, the same file and site
Restart ==
    /\ pc = "exited"
    /\ run < MaxRuns
    /\ run' = run + 1
    /\ pc' = "creds"
    /\ USERNAME' \in CredentialValues
    /\ PASSWORD' \in CredentialValues
    /\ driver' = "none"
    /\ quits' = 0
    /\ exit_code' = -1
    /\ last_index' = 0
    /\ first_row_job_id' = 0
    /\ job_id' = 0
    /\ view' = NoView
    /\ view_open' = FALSE
    /\ workflow_clicked' = FALSE
    /\ created_email' = <<>>
    /\ log' = <<>>
    /\ attempted' = {}
    /\ aborted' = {}
    /\ aborted_prev' = aborted
    /\ stepped' = 0
    /\ written' = 0
    /\ prev_final' = file
    /\ clean' = TRUE
    /\ prev_outcome' = IF exit_code # 0 THEN "died"
                       ELSE IF clean THEN "clean" ELSE "faulty"
    /\ UNCHANGED <<file, remote, probe>>

Next ==
    \/ CheckCredentials
    \/ InitDriver
    \/ LoadTracker
    \/ LoginAndNavigate
    \/ ExtractJobIds
    \/ Locate
    \/ OpenTask
    \/ TypeCheck
    \/ ExistingCheck
    \/ SkipClose
    \/ SkipSave
    \/ WorkflowClick
    \/ Scan
    \/ CreateClick
    \/ Rescan
    \/ FillCreated
    \/ FillDefault
    \/ TaskSave
    \/ SaveTracker
    \/ ReturnToList
    \/ Advance
    \/ Finish
    \/ Quit
    \/ Restart

Spec == Init /\ [][Next]_vars

(* ----------------------- the tracker on its own ------------------------ *)
\* save_job_tracker and load_job_tracker called directly, in any order, on
\* any tracker file; every process sees only the file
ProbeInts == {-1, 0, 1, DEFAULT_START_JOB_ID, DEFAULT_START_JOB_ID + 1}

AllFiles ==
    {FileOf(k, 0) : k \in FileKinds \ {"int", "numstr"}}
      \cup {FileOf(k, n) : k \in {"int", "numstr"}, n \in ProbeInts}

process == <<pc, USERNAME, PASSWORD, run, tasks, first_row, driver, quits, exit_code, last_index,
             first_row_job_id, job_id, view, view_open, workflow_clicked,
             created_email, log, attempted, aborted, aborted_prev, stepped,
             written, prev_final, clean, prev_outcome>>

InitTracker ==
    /\ pc = "probe"
    /\ USERNAME = "set"
    /\ PASSWORD = "set"
    /\ run = 1
    /\ file \in AllFiles
    /\ tasks = [j \in JobIds |-> TaskOf(FALSE, FALSE, FALSE, EmptyText, EmptyText, FALSE)]
    /\ first_row = 0
    /\ driver = "none"
    /\ quits = 0
    /\ exit_code = -1
    /\ last_index = 0
    /\ first_row_job_id = 0
    /\ job_id = 0
    /\ view = NoView
    /\ view_open = FALSE
    /\ workflow_clicked = FALSE
    /\ created_email = <<>>
    /\ log = <<>>
    /\ attempted = {}
    /\ aborted = {}
    /\ aborted_prev = {}
    /\ stepped = 0
    /\ written = 0
    /\ prev_final = FileOf("missing", 0)
    /\ clean = TRUE
    /\ prev_outcome = "none"
    /\ probe = NoProbe

\* save_job_tracker(n), lines 72-79
ProbeSave ==
    /\ pc = "probe"
    /\ \E n \in ProbeInts, io \in WriteOutcomes :
          /\ file' = save_job_tracker(file, n, io)
          /\ probe' = [op |-> "save", n |-> n, io |-> io, ret |-> 0,
                       raised |-> save_job_tracker_raises(io)]
    /\ UNCHANGED process

\* load_job_tracker(), lines 55-70; op tells whether a save came just before
ProbeLoad ==
    /\ pc = "probe"
    /\ probe' = [probe EXCEPT
                    !.ret = IF load_job_tracker_raises(file) THEN 0
                            ELSE load_job_tracker(file),
                    !.raised = load_job_tracker_raises(file),
                    !.op = IF probe.op \in {"save", "save_load"}
                           THEN "save_load" ELSE "load"]
    /\ UNCHANGED <<file, process>>

\* the tracker file is removed between runs
ProbeRemove ==
    /\ pc = "probe"
    /\ file.kind # "missing"
    /\ file' = FileOf("missing", 0)
    /\ probe' = NoProbe
    /\ UNCHANGED process

NextTracker == ProbeSave \/ ProbeLoad \/ ProbeRemove

SpecTracker == InitTracker /\ [][NextTracker]_vars

(* ------------------------ paste_email on its own ----------------------- *)
\* the values the main workflow passes to paste_email
PasteEmails == {GeneratedEmail, default_email}

\* what the designated field may hold before the call
FieldTexts == {EmptyText, OnText, NotAnEmail, ClientEmail}

Padded(t) == <<" ">> \o t \o <<" ">>
Truncated(t) == SubSeq(t, 1, Len(t) - 1)

\* what a read-back may give: the text, the text between blanks, the text
\* cut short, what the field held before, nothing, or an exception
ReadBacks(email, old) ==
    {ReadText(t) : t \in {email, Padded(email), Truncated(email), old, EmptyText}}
      \cup {ReadRaises}

AllPasteEnvs(email, old) ==
    { PasteEnv(f, d, c) :
        f \in BOOLEAN, d \in ReadBacks(email, old), c \in ReadBacks(email, old) }

NoPaste == [op |-> "none"]

InitPaste ==
    /\ pc = "paste"
    /\ USERNAME = "set"
    /\ PASSWORD = "set"
    /\ run = 1
    /\ file = FileOf("missing", 0)
    /\ tasks = [j \in JobIds |-> TaskOf(FALSE, FALSE, FALSE, EmptyText, EmptyText, FALSE)]
    /\ first_row = 0
    /\ driver = "up"
    /\ quits = 0
    /\ exit_code = -1
    /\ last_index = 0
    /\ first_row_job_id = 0
    /\ job_id = 0
    /\ view = NoView
    /\ view_open = TRUE
    /\ workflow_clicked = FALSE
    /\ created_email = <<>>
    /\ log = <<>>
    /\ attempted = {}
    /\ aborted = {}
    /\ aborted_prev = {}
    /\ stepped = 0
    /\ written = 0
    /\ prev_final = FileOf("missing", 0)
    /\ clean = TRUE
    /\ prev_outcome = "none"
    /\ probe = NoPaste

\* paste_email(email), lines 163-205, on any page
ProbePaste ==
    /\ pc = "paste"
    /\ \E email \in PasteEmails, old \in FieldTexts :
          \E env \in AllPasteEnvs(email, old) :
             probe' = [op |-> "paste", email |-> email, old |-> old, env |-> env,
                       r |-> paste_email(email, old, env)]
    /\ UNCHANGED <<file, process>>

NextPaste == ProbePaste

SpecPaste == InitPaste /\ [][NextPaste]_vars

(* ------------------------------ the claims ----------------------------- *)
EnteredFill == Logged(TriggerEvents)
TaskEnded == pc = "next"

\* C1: within one run every integer that save_job_tracker writes is at least
\* the value load_job_tracker returned at the start of the run, at least the
\* integer the file held just before, and at least every integer written
\* earlier in the run: the persisted last_index never decreases.
C1_WatermarkMonotone ==
    [][ (file' # file /\ file'.kind = "int")
          => /\ file'.val >= last_index
             /\ file'.val >= written
             /\ (IntConvertible(file) => file'.val >= file.val) ]_vars

\* a second run that loaded the watermark the first run left and wrote a
\* higher one
C1_Witness ==
    /\ run = 2
    /\ prev_final.kind = "int"
    /\ last_index = prev_final.val
    /\ written > last_index
    /\ file = FileOf("int", written)

\* C2: a task that entered the fill workflow ends its iteration with
\* save_job_tracker(job_id) invoked, whatever failed on the way.
C2_FillAlwaysReachesTracker ==
    (TaskEnded /\ EnteredFill)
      => (Logged({"tracker"}) /\ stepped = job_id /\ ~Logged({"abort"}))

\* every best-effort step of the fill workflow failed and the tracker was
\* still called
C2_Witness ==
    /\ TaskEnded
    /\ Logged({"workflow_fail"})
    /\ Logged({"scan_error"})
    /\ Logged({"fill_default_fail"})
    /\ Logged({"save_fail"})
    /\ Logged({"tracker"})
    /\ stepped = job_id

\* the loop of the next run has ended
RerunLoopEnded == run > 1 /\ pc = "finish"

\* C3 as stated: every id whose body was aborted in the previous run is
\* attempted by the next run, whatever happened to later ids.
C3_Original ==
    RerunLoopEnded => aborted_prev \subseteq attempted

\* C3 amended: an id aborted in the previous run is attempted by the next run
\* exactly when the watermark that run left is not above it, that is, when no
\* later id of the failing run had its watermark written.
C3_RetryUnlessOvertaken ==
    RerunLoopEnded
      => \A k \in aborted_prev :
            (k \in attempted) <=> ~(IntConvertible(prev_final) /\ prev_final.val > k)

\* an aborted id is attempted again by the next run
C3_Witness ==
    /\ RerunLoopEnded
    /\ \E k \in aborted_prev : k \in attempted /\ prev_final = FileOf("int", k)

\* every log line of the second set is preceded by one of the first
Before(first, second) ==
    \A i \in 1..Len(log) :
        log[i] \in second => \E j \in 1..(i - 1) : log[j] \in first

Opened == Logged({"open"})

\* C4 as stated: a located Installer Checkin task ends with no trigger, no
\* create, no field write, no save click, the detail view closed and the
\* persisted watermark equal to its id.
C4_Original ==
    (TaskEnded /\ Opened /\ tasks[job_id].excluded)
      => /\ ~Logged(MutationEvents)
         /\ Logged({"close_ok"})
         /\ ~view_open
         /\ file = FileOf("int", job_id)

\* C5 as stated: a located task that is not excluded and already holds a
\* valid e-mail in -15 or -16 (its stored fields are those it was opened
\* with: no save click has reached the site) ends with no trigger, no create,
\* no field write, no save click and the persisted watermark equal to its id.
C5_Original ==
    (TaskEnded /\ Opened /\ ~tasks[job_id].excluded /\ ~Logged({"save_ok"})
       /\ check_email_field_content(tasks[job_id].fld) # <<>>)
      => /\ ~Logged(MutationEvents)
         /\ file = FileOf("int", job_id)

NothingFound == ~Logged({"scan_hit", "rescan_hit"})

\* C6: in the fill workflow, when no page-wide scan found a generated
\* address, a fill with default@aroflo.com has been attempted by the time the
\* task save step is reached, and before any save click.
C6_DefaultWhenNothingFound ==
    /\ (pc = "tasksave" /\ NothingFound) => Logged(FillEventsDefault)
    /\ NothingFound => Before(FillEventsDefault, SaveClickEvents)

\* the create click worked, the second scan found nothing, the default was
\* pasted and the save click followed
C6_Witness ==
    /\ Logged({"workflow_ok"})
    /\ Logged({"create_ok"})
    /\ Logged({"rescan_miss"})
    /\ Logged(FillEventsDefault)
    /\ Logged(SaveClickEvents)

\* C7 as stated: a task on which a best-effort step failed (workflow click,
\* create click, return to the list, save click) still reaches its tracker
\* write and is not aborted, on every path, the skip paths included.
C7_Original ==
    (TaskEnded /\ Logged({"workflow_fail", "create_fail", "close_fail", "save_fail"}))
      => (Logged({"tracker"}) /\ ~Logged({"abort"}))

CleanSoFar == clean /\ ~Logged(FailureEvents)

C9_Original ==
    /\ stepped # 0 => file = FileOf("int", stepped)
    /\ (TaskEnded /\ Logged({"not_found", "abort"}))
          => (stepped # job_id /\ written # job_id)

\* C9 amended: the persisted watermark is the id of the most recent task
\* whose tracker write succeeded, unless a later write failed after
\* truncating the file (which then holds no watermark); it is the id of the
\* most recent task that reached its persistence step when that write
\* succeeded; a not-found or aborted id never becomes the watermark.
C9_WatermarkIsLastWritten ==
    /\ written # 0
          => (file = FileOf("int", written)
                \/ (file = FileOf("notjson", 0) /\ stepped > written))
    /\ (stepped # 0 /\ stepped = written) => file = FileOf("int", stepped)
    /\ (TaskEnded /\ Logged({"not_found", "abort"}))
          => (stepped # job_id /\ written # job_id)

\* a later id was aborted and the watermark stayed at the last written id
C9_Witness ==
    /\ TaskEnded
    /\ Logged({"abort"})
    /\ written # 0
    /\ job_id > written
    /\ file = FileOf("int", written)

\* C10 as stated: for every integer n, save_job_tracker(n) followed by
\* load_job_tracker() with no write in between returns n; with no tracker
\* file load_job_tracker() returns 3411.
C10_Original ==
    /\ probe.op = "save_load" => probe.ret = probe.n
    /\ (probe.op = "load" /\ file.kind = "missing")
          => probe.ret = DEFAULT_START_JOB_ID

\* C10 amended: for every integer n, when the write of save_job_tracker(n)
\* succeeds, a following load_job_tracker() returns n; when the write fails
\* after truncating the file it returns 3411; with no tracker file
\* load_job_tracker() returns 3411.
C10_RoundTripWhenWritten ==
    /\ (probe.op = "save_load" /\ probe.io = "ok") => probe.ret = probe.n
    /\ (probe.op = "save_load" /\ probe.io = "write_fail")
          => probe.ret = DEFAULT_START_JOB_ID
    /\ (probe.op = "load" /\ file.kind = "missing")
          => probe.ret = DEFAULT_START_JOB_ID

\* 0 was saved and read back
C10_Witness ==
    /\ probe.op = "save_load"
    /\ probe.io = "ok"
    /\ probe.n = 0
    /\ probe.ret = 0

\* the tracker files the code has a fallback for
DamagedKinds == {"missing", "unreadable", "notjson", "notobject", "nokey", "badstr"}

\* C11: load_job_tracker does not raise and returns 3411 when the tracker
\* file is missing, unreadable, not JSON, JSON that is not an object, an
\* object without last_index, or holds a last_index that int() refuses;
\* save_job_tracker does not raise when its write fails.
C11_TrackerNeverRaises ==
    /\ probe.op \in {"load", "save_load"}
          => /\ ~probe.raised
             /\ file.kind \in DamagedKinds => probe.ret = DEFAULT_START_JOB_ID
    /\ probe.op = "save" => ~probe.raised

\* a write failed after truncating the file, nothing was raised, and the
\* load that followed answered the default without raising
C11_Witness ==
    /\ probe.op = "save_load"
    /\ probe.io = "write_fail"
    /\ file.kind = "notjson"
    /\ ~probe.raised
    /\ probe.ret = DEFAULT_START_JOB_ID

\* the read-back of line 181 was made and, trimmed, is the intended value
DirectTook(p) ==
    p.env.found /\ ~p.env.direct.raises /\ strip(p.env.direct.text) = p.email

\* the read-back of line 181 was made and, trimmed, is not the intended value
DirectMissed(p) ==
    p.env.found /\ ~p.env.direct.raises /\ strip(p.env.direct.text) # p.email

\* C12: in one paste_email call, a direct entry whose trimmed read-back is
\* the intended value succeeds without the clipboard; one whose read-back
\* differs is followed by exactly one clipboard paste, and the call succeeds
\* exactly when the trimmed read-back after that paste is the intended value;
\* the call never raises and reports a failure by returning False.
C12_FillTransport ==
    probe.op = "paste"
      => /\ ~probe.r.raised
         /\ DirectTook(probe) => (probe.r.ok /\ probe.r.clipboard = 0)
         /\ DirectMissed(probe)
               => /\ probe.r.clipboard = 1
                  /\ probe.r.ok <=> (/\ ~probe.env.clip.raises
                                     /\ strip(probe.env.clip.text) = probe.email)
         /\ probe.r.ok => strip(probe.r.value) = probe.email

\* the direct entry left the text cut short, the clipboard paste left it
\* between blanks, and the call succeeded after one copy
C12_Witness ==
    /\ probe.op = "paste"
    /\ probe.env.found
    /\ probe.env.direct = ReadText(Truncated(probe.email))
    /\ probe.env.clip = ReadText(Padded(probe.email))
    /\ probe.r.ok
    /\ probe.r.clipboard = 1

\* a browser session was created in this run
SessionCreated == driver # "none"

\* C13: a run that created the browser session calls driver.quit() once
\* before the process ends, on normal completion, with an empty job list and
\* when an exception leaves login, navigation or the loop; it never calls it
\* twice or without a session, and no step of the workflow follows the call.
C13_QuitExactlyOnce ==
    /\ (pc = "exited" /\ SessionCreated) => (quits = 1 /\ driver = "quit")
    /\ quits <= 1
    /\ ~SessionCreated => quits = 0
    /\ quits > 0 => pc = "exited"

\* the tracker was loaded, an exception left login, navigation or the read
\* of the first row, and the session was torn down once
C13_Witness ==
    /\ pc = "exited"
    /\ exit_code = 1
    /\ last_index = DEFAULT_START_JOB_ID + 1
    /\ quits = 1
    /\ driver = "quit"

\* C14: with a credential absent the process ends at the credential check
\* with a non-zero status, no browser session, the tracker file not read and
\* not written; when the WebDriver fails to start the process ends there
\* with a non-zero status and the tracker file as it was; no step up to and
\* including the start of the WebDriver reads or writes the tracker file.
C14_StartupFailureFatal ==
    [][
        /\ (pc = "creds" /\ (Absent(USERNAME) \/ Absent(PASSWORD)))
              => (/\ pc' = "exited"
                  /\ exit_code' > 0
                  /\ driver' = "none"
                  /\ quits' = 0)
        /\ (pc = "driver" /\ driver' # "up")
              => (/\ pc' = "exited"
                  /\ exit_code' > 0
                  /\ quits' = 0)
        /\ (pc \in {"creds", "driver"})
              => (/\ file' = file
                  /\ last_index' = 0
                  /\ stepped' = 0)
    ]_vars

\* a second run found the password empty and ended at once, leaving the
\* watermark the first run had written
C14_Witness ==
    /\ run = 2
    /\ pc = "exited"
    /\ USERNAME = "set"
    /\ PASSWORD = "empty"
    /\ exit_code = 1
    /\ driver = "none"
    /\ prev_final.kind = "int"
    /\ file = prev_final
    /\ last_index = 0

\* C15: the iteration of a job id that has no row in the list ends at the
\* row lookup: the tracker file, the remote tasks, the detail view and the
\* record of tracker calls are as before, nothing but the not-found line is
\* logged, and the loop goes on to the next id of the range or, after the
\* last id, ends.
C15_NotFoundTouchesNothing ==
    [][
        /\ (pc = "locate" /\ ~TaskPresent(job_id))
              => (/\ pc' = "next"
                  /\ log' = <<"not_found">>
                  /\ file' = file
                  /\ tasks' = tasks
                  /\ view_open' = view_open
                  /\ stepped' = stepped
                  /\ written' = written
                  /\ aborted' = aborted)
        /\ (pc = "next" /\ log = <<"not_found">>)
              => (/\ file' = file
                  /\ tasks' = tasks
                  /\ IF job_id < first_row_job_id
                     THEN pc' = "locate" /\ job_id' = job_id + 1
                     ELSE pc' = "finish")
    ]_vars

\* the run started at an id that has no row, went on to the next id and
\* processed it to its tracker write
C15_Witness ==
    /\ last_index = DEFAULT_START_JOB_ID
    /\ ~TaskPresent(DEFAULT_START_JOB_ID)
    /\ DEFAULT_START_JOB_ID \in attempted
    /\ job_id = DEFAULT_START_JOB_ID + 1
    /\ written = job_id
    /\ file = FileOf("int", job_id)

\* number of log lines of the current task that belong to the set
Count(events) == Cardinality({i \in 1..Len(log) : log[i] \in events})

RescanEvents == {"rescan_hit", "rescan_miss"}

\* the field paste_email writes to in the open detail view
Target == get_email_field(tasks[job_id])

\* C16: the Create button is tried only after a successful workflow click
\* and a first scan that found no address, and never after a failed workflow
\* click; the scan is repeated only after a Create click that worked, once;
\* an address found by the second scan is the value given to paste_email,
\* and the default is then not pasted.
C16_CreateOnlyAfterTriggerAndMiss ==
    /\ Logged(CreateEvents)
          => /\ Before({"workflow_ok"}, CreateEvents)
             /\ Before({"scan_miss"}, CreateEvents)
             /\ ~Logged({"scan_hit"})
             /\ Count(CreateEvents) = 1
    /\ Logged({"workflow_fail"}) => (pc # "create" /\ ~Logged(CreateEvents))
    /\ Before({"create_ok"}, RescanEvents)
    /\ Count(RescanEvents) <= 1
    /\ (Logged({"create_ok"}) /\ pc # "rescan") => Count(RescanEvents) = 1
    /\ (Logged({"rescan_hit"}) /\ pc = "fill_created")
          => (created_email = GeneratedEmail /\ tasks[job_id].gen)
    /\ (Logged({"rescan_hit"}) /\ pc = "tasksave")
          => /\ Logged(FillEventsCreated)
             /\ ~Logged(FillEventsDefault)
             /\ Logged({"fill_created_ok"}) => view[Target] = created_email

\* the workflow click worked, the first scan found nothing, the Create click
\* worked, the second scan found the generated address and it was pasted
C16_Witness ==
    /\ pc = "tasksave"
    /\ Logged({"workflow_ok"})
    /\ Logged({"scan_miss"})
    /\ Logged({"create_ok"})
    /\ Logged({"rescan_hit"})
    /\ Logged({"fill_created_ok"})
    /\ view[Target] = GeneratedEmail

FillAttempts == FillEventsCreated \cup FillEventsDefault

\* C17: for a task in the fill workflow the paste_email call comes before
\* the save click, the save click before the save_job_tracker call, and that
\* call before the click that returns to the list; when the iteration ends
\* each of the four has happened once; the tracker file is not written for
\* the id before its save click was tried.
C17_FillSaveTrackerClose ==
    EnteredFill
      => /\ Before(FillAttempts, SaveClickEvents)
         /\ Before(SaveClickEvents, {"tracker"})
         /\ Before({"tracker"}, CloseEvents)
         /\ stepped = job_id => Logged(SaveClickEvents)
         /\ written = job_id => Logged(SaveClickEvents)
         /\ TaskEnded
               => /\ Count(FillAttempts) = 1
                  /\ Count(SaveClickEvents) = 1
                  /\ Count({"tracker"}) = 1
                  /\ Count(CloseEvents) = 1

\* a fill iteration ended with the paste failed, the save click failed, the
\* tracker written and the return to the list failed, in that order
C17_Witness ==
    /\ TaskEnded
    /\ log = <<"open", "workflow_fail", "scan_miss", "fill_default_fail",
               "save_fail", "tracker", "saved", "close_fail">>
    /\ file = FileOf("int", job_id)

\* the loop body is being executed
InLoop == pc \notin {"creds", "driver", "load", "login", "extract", "finish",
                     "quit", "exited"}

\* C18: in one run an id is attempted only if it is above every id
\* attempted before, so each at most once; the ids attempted so far are the
\* ids from the loaded value up to the current one; when the loop is over
\* they are the ids from the loaded value up to the id read from the first
\* row, both included; when that id is below the loaded value or the list
\* shows no job id, the loop ends with no id attempted and no tracker call.
C18_AscendingRange ==
    [][
        /\ (attempted' # attempted /\ run' = run)
              => (/\ attempted' = attempted \cup {job_id}
                  /\ \A k \in attempted : k < job_id)
        /\ (InLoop /\ pc # "locate") => attempted = last_index .. job_id
        /\ pc = "locate" => attempted = last_index .. (job_id - 1)
        /\ pc' = "finish"
              => (/\ attempted' = IF first_row = 0 THEN {}
                                  ELSE last_index .. first_row
                  /\ first_row # 0 => first_row_job_id' = first_row
                  /\ attempted' = {} => (file' = file /\ stepped' = 0))
    ]_vars

\* a second run loaded the watermark the first run left, attempted that id
\* again and went on to the id of the first row
C18_Witness ==
    /\ run = 2
    /\ pc = "finish"
    /\ prev_final = FileOf("int", DEFAULT_START_JOB_ID)
    /\ DEFAULT_START_JOB_ID \notin aborted_prev
    /\ TaskPresent(DEFAULT_START_JOB_ID)
    /\ last_index = DEFAULT_START_JOB_ID
    /\ first_row_job_id = DEFAULT_START_JOB_ID + 1
    /\ attempted = {DEFAULT_START_JOB_ID, DEFAULT_START_JOB_ID + 1}

HitEvents == {"scan_hit", "rescan_hit"}

\* the paste_email call of the current task has returned
PastFill == pc \in {"tasksave", "tracker", "return", "next"}

\* C19: a task in the fill workflow gets one paste_email call, never two;
\* its value is the address a scan found, which matches the aroflo pattern,
\* or default@aroflo.com; once a scan has found an address the default is
\* not pasted, also when the paste of the found address failed.
C19_OneFillPerTask ==
    EnteredFill
      => /\ Count(FillAttempts) <= 1
         /\ (PastFill /\ ~Logged({"abort"})) => Count(FillAttempts) = 1
         /\ Logged(HitEvents) => ~Logged(FillEventsDefault)
         /\ Logged({"fill_created_fail"}) => ~Logged(FillEventsDefault)
         /\ Logged(FillEventsCreated)
               => (Logged(HitEvents) /\ MatchesArofloPattern(created_email))
         /\ Logged(FillEventsDefault) => created_email = <<>>
         /\ (pc = "tasksave" /\ Logged({"fill_created_ok"}))
               => view[Target] = created_email
         /\ (pc = "tasksave" /\ Logged({"fill_default_ok"}))
               => view[Target] = default_email

\* the first scan found an address, its paste failed after the clipboard
\* was tried, and the iteration ended without a paste of the default
C19_Witness ==
    /\ TaskEnded
    /\ Logged({"scan_hit"})
    /\ Logged({"clipboard"})
    /\ Logged({"fill_created_fail"})
    /\ Count(FillAttempts) = 1
    /\ ~Logged(FillEventsDefault)
    /\ stepped = job_id

====
